---- MODULE Spec2Model ----
(***************************************************************************)
(* Monte Carlo driver of DGP_exponential/EXPONENTIAL_simulation.py and the *)
(* helpers of functions/func_simu.py (analytical_theta, generate_data,     *)
(* performance_report).                                                    *)
(*                                                                         *)
(* Floating point values are modelled exactly: a finite value is a         *)
(* normalised fraction n/d, and the two IEEE specials that the script      *)
(* tests for (inf, NaN) are separate tags.  numpy/pandas operations        *)
(* (dropna, mean, std, index alignment, quantile) are modelled by what     *)
(* they compute.  The estimators of func_main are not part of the sources: *)
(* estimator_unknown_ranks is a deterministic function of the sample it is *)
(* given, chosen in Init among a family of fake adapters.                  *)
(***************************************************************************)
EXTENDS Integers, Sequences, FiniteSets, TLC

(* ------------------------------ bounds -------------------------------- *)
\* largest configured replication count nb_simu
MaxB == 2
\* longest configured sample_size list
MaxLen == 2
\* number of distinct states of the numpy generator (it wraps around)
RngMod == 4
\* parameters of the grid on which analytical_theta is evaluated: -1..MaxParam
MaxParam == 4

(* ------------------------- program constants -------------------------- *)
nb_estimators == 5
Seed == 999
\* norm.ppf(0.975) = 1.959964..., as the fraction Z975Num / Z975Den
Z975Num == 1959964
Z975Den == 1000000
\* q = .95 of DataFrame.quantile, as the fraction QNum / QDen
QNum == 19
QDen == 20

(* --------------------------- float values ----------------------------- *)
RECURSIVE GCD(_, _)
GCD(a, b) == IF b = 0 THEN a ELSE GCD(b, a % b)

Abs(n) == IF n < 0 THEN -n ELSE n

Sign(n) == IF n < 0 THEN -1 ELSE IF n = 0 THEN 0 ELSE 1

NaN == [k |-> "nan", n |-> 0, d |-> 0]

Inf(s) == [k |-> "inf", n |-> s, d |-> 0]

\* the finite value n/d (d # 0), normalised
Fin(n, d) ==
    LET g == GCD(Abs(n), Abs(d))
        s == IF d < 0 THEN -1 ELSE 1
    IN  [k |-> "fin", n |-> s * (n \div g), d |-> s * (d \div g)]

IsNaN(x) == x.k = "nan"

IsInf(x) == x.k = "inf"

IsFinite(x) == x.k = "fin"

FNeg(x) == IF x.k = "fin" THEN Fin(-x.n, x.d)
           ELSE IF x.k = "inf" THEN Inf(-x.n) ELSE x

FAdd(x, y) ==
    IF IsNaN(x) \/ IsNaN(y) THEN NaN
    ELSE IF IsInf(x) /\ IsInf(y) THEN (IF x.n = y.n THEN x ELSE NaN)
    ELSE IF IsInf(x) THEN x
    ELSE IF IsInf(y) THEN y
    ELSE Fin(x.n * y.d + y.n * x.d, x.d * y.d)

FSub(x, y) == FAdd(x, FNeg(y))

FMul(x, y) ==
    IF IsNaN(x) \/ IsNaN(y) THEN NaN
    ELSE IF IsInf(x) \/ IsInf(y)
         THEN (IF Sign(x.n) * Sign(y.n) = 0 THEN NaN
               ELSE Inf(Sign(x.n) * Sign(y.n)))
    ELSE Fin(x.n * y.n, x.d * y.d)

\* numpy division: x/0 is +-inf (0/0 is NaN), never an exception
FDiv(x, y) ==
    IF IsNaN(x) \/ IsNaN(y) THEN NaN
    ELSE IF IsInf(x) /\ IsInf(y) THEN NaN
    ELSE IF IsInf(x) THEN Inf(x.n * (IF y.n < 0 THEN -1 ELSE 1))
    ELSE IF IsInf(y) THEN Fin(0, 1)
    ELSE IF y.n = 0 THEN (IF x.n = 0 THEN NaN ELSE Inf(Sign(x.n)))
    ELSE Fin(x.n * y.d, x.d * y.n)

FAbs(x) == IF x.k = "fin" THEN Fin(Abs(x.n), x.d)
           ELSE IF x.k = "inf" THEN Inf(1) ELSE x

\* x < y; any comparison with NaN is false
FLt(x, y) ==
    IF IsNaN(x) \/ IsNaN(y) THEN FALSE
    ELSE IF IsInf(x) THEN x.n < 0 /\ ~(IsInf(y) /\ y.n < 0)
    ELSE IF IsInf(y) THEN y.n > 0
    ELSE x.n * y.d < y.n * x.d

\* np.sqrt of a non-negative value; an irrational root is kept symbolic
FSqrt(x) ==
    IF x.k # "fin" THEN x
    ELSE IF \E r \in 0..x.n : \E s \in 1..x.d : r * r = x.n /\ s * s = x.d
         THEN LET r == CHOOSE r \in 0..x.n : r * r = x.n
                  s == CHOOSE s \in 1..x.d : s * s = x.d
              IN  Fin(r, s)
         ELSE [k |-> "sqrt", n |-> x.n, d |-> x.d]

Z975 == Fin(Z975Num, Z975Den)

(* ------------------------- func_simu.py ------------------------------- *)
Raise == [k |-> "raise", n |-> 0, d |-> 0]

\* Python's x / y on numbers read from YAML: ZeroDivisionError when y = 0
PyDiv(x, y) ==
    IF x.k = "raise" \/ y.k = "raise" THEN Raise
    ELSE IF y.k = "fin" /\ y.n = 0 THEN Raise
    ELSE FDiv(x, y)

PySub(x, y) == IF x.k = "raise" \/ y.k = "raise" THEN Raise ELSE FSub(x, y)

analytical_theta_swapped(alpha_y, lambda_z, lambda_x) ==
    PyDiv(Fin(1, 1),
          PySub(PyDiv(Fin(alpha_y * lambda_z, 1), Fin(lambda_x, 1)), Fin(1, 1)))

\* theta = 1/(alpha_y*lambda_x/lambda_z - 1)
analytical_theta(alpha_y, lambda_z, lambda_x) ==
    PyDiv(Fin(1, 1),
          PySub(PyDiv(Fin(alpha_y * lambda_x, 1), Fin(lambda_z, 1)), Fin(1, 1)))

\* np.random.uniform(size=size): the sample is determined by the generator
\* state it starts from, and consumes `size` variates
uniform(rng, size) ==
    [sample |-> [from |-> rng, size |-> size], rng |-> (rng + size) % RngMod]

\* generate_data: three draws from numpy's global generator, y then z then x
generate_data(rng, size) ==
    LET uy == uniform(rng, size)
        uz == uniform(uy.rng, size)
        ux == uniform(uz.rng, size)
    IN  [y |-> uy.sample, z |-> uz.sample, x |-> ux.sample, rng |-> ux.rng]

(* ----------------------- pandas / numpy helpers ----------------------- *)
Cols == 1..nb_estimators

RECURSIVE FSum(_)
FSum(s) == IF s = <<>> THEN Fin(0, 1) ELSE FAdd(Head(s), FSum(Tail(s)))

NotNaN(x) == ~IsNaN(x)

\* Series.mean(): NaN skipped, NaN for an empty series
Mean(s) ==
    LET v == SelectSeq(s, NotNaN)
    IN  IF Len(v) = 0 THEN NaN ELSE FDiv(FSum(v), Fin(Len(v), 1))

\* Series.std(): NaN skipped, ddof = 1
Std(s) ==
    LET v == SelectSeq(s, NotNaN)
        m == Mean(v)
        sq == [i \in 1..Len(v) |-> FMul(FSub(v[i], m), FSub(v[i], m))]
    IN  IF Len(v) < 2 THEN NaN
        ELSE FSqrt(FDiv(FSum(sq), Fin(Len(v) - 1, 1)))

\* Series.quantile(q=.95), linear interpolation between order statistics
Quantile95(s) ==
    LET v == SelectSeq(s, NotNaN)
        n == Len(v)
        Kth(j) == LET i == CHOOSE i \in 1..n :
                            /\ Cardinality({h \in 1..n : FLt(v[h], v[i])}) < j
                            /\ j <= Cardinality({h \in 1..n : ~FLt(v[i], v[h])})
                  IN  v[i]
        pos == QNum * (n - 1)
        lo == pos \div QDen
        fr == Fin(pos % QDen, QDen)
    IN  IF n = 0 THEN NaN
        ELSE IF pos % QDen = 0 THEN Kth(lo + 1)
        ELSE FAdd(Kth(lo + 1), FMul(fr, FSub(Kth(lo + 2), Kth(lo + 1))))

\* a DataFrame: the sequence of its rows, each with its index label
Frame(m) == [i \in 1..Len(m) |-> [idx |-> i - 1, row |-> m[i]]]

RowHasNaN(r) == \E c \in Cols : IsNaN(r.row[c])

RowComplete(r) == ~RowHasNaN(r)

\* DataFrame.dropna(axis=0): infinite entries are not missing values
dropna(df) == SelectSeq(df, RowComplete)

Index(df) == {df[i].idx : i \in 1..Len(df)}

Loc(df, i) == (CHOOSE j \in 1..Len(df) : df[j].idx = i)

Column(df, c) == [i \in 1..Len(df) |-> df[i].row[c]]

RECURSIVE SortedSeq(_)
SortedSeq(S) ==
    IF S = {} THEN <<>>
    ELSE LET m == CHOOSE m \in S : \A o \in S : m <= o
         IN  <<m>> \o SortedSeq(S \ {m})

(* performance_report(y_hat, theta0, n_obs, sigma=sigma_df, file=outfile) *)
ColumnNames ==
    <<"standard_kernel", "standard_xavier", "smooth_kernel", "smooth_ls",
      "smooth_xavier">>

\* y_hat kept uncentred
y_centered_raw(y_hat, theta0) == y_hat

y_centered(y_hat, theta0) ==
    [i \in 1..Len(y_hat) |->
        [idx |-> y_hat[i].idx,
         row |-> [c \in Cols |-> FSub(y_hat[i].row[c], theta0)]]]

\* (abs(y_centered/sigma) < norm.ppf(0.975)).mean(axis=0); the division
\* aligns the two frames on the union of their indexes, NaN where a label
\* is missing from one of them
CoverageRate(yc, sigma, c) ==
    LET U == SortedSeq(Index(yc) \cup Index(sigma))
        hit == [i \in 1..Len(U) |->
                  IF U[i] \in Index(yc) /\ U[i] \in Index(sigma)
                  THEN FLt(FAbs(FDiv(yc[Loc(yc, U[i])].row[c],
                                     sigma[Loc(sigma, U[i])].row[c])), Z975)
                  ELSE FALSE]
    IN  IF Len(U) = 0 THEN NaN
        ELSE Fin(Cardinality({i \in 1..Len(U) : hit[i]}), Len(U))

performance_report(y_hat, theta0, n_obs, sigma) ==
    LET yc == y_centered(y_hat, theta0)
    IN  [theta0   |-> theta0,
         n_simu   |-> Len(y_hat),
         n_obs    |-> n_obs,
         bias     |-> [c \in Cols |-> Mean(Column(yc, c))],
         MAE      |-> [c \in Cols |->
                         Mean([i \in 1..Len(yc) |-> FAbs(yc[i].row[c])])],
         RMSE     |-> [c \in Cols |-> Std(Column(yc, c))],
         Coverage |-> [c \in Cols |-> CoverageRate(yc, sigma, c)],
         Quantile |-> [c \in Cols |->
                         [sqrt_of |-> n_obs, times |-> Quantile95(Column(yc, c))]],
         CI_size  |-> [c \in Cols |->
                         FMul(FMul(Fin(2, 1), Z975), Mean(Column(sigma, c)))]]

(* ------------------ estimator_unknown_ranks (func_main) --------------- *)
RngStates == 0..(RngMod - 1)

\* the five calls of one replication, in program order; the first passes no
\* se_method
Calls ==
    <<[method |-> "standard", se_method |-> "default"],
      [method |-> "standard", se_method |-> "xavier"],
      [method |-> "smoothed", se_method |-> "kernel"],
      [method |-> "smoothed", se_method |-> "lewbel-schennach"],
      [method |-> "smoothed", se_method |-> "xavier"]>>

BaseTheta == Fin(1, 1)

BaseSigma == Fin(1, 10)

FaultKinds == {"sigma_inf", "sigma_nan", "theta_nan", "theta_off"}

\* a fake adapter: (BaseTheta, BaseSigma), except for one call signature on
\* the samples drawn from the generator states in `on`: none, the samples
\* drawn from state 0, or all of them (the generator starts in any state,
\* so a fault on another single state is a rotation of the fault on 0)
Adapters ==
    {[call |-> Calls[1], kind |-> "sigma_inf", on |-> {}]}
    \cup [call : {Calls[i] : i \in Cols}, kind : FaultKinds,
          on : {{0}, RngStates}]

estimator_unknown_ranks(ad, y, x, z, method, se_method) ==
    LET hit == /\ ad.call = [method |-> method, se_method |-> se_method]
               /\ y.from \in ad.on
    IN  [theta |-> IF hit /\ ad.kind = "theta_nan" THEN NaN
                   ELSE IF hit /\ ad.kind = "theta_off"
                        THEN FAdd(BaseTheta, Fin(1, 1))
                   ELSE BaseTheta,
         sigma |-> IF hit /\ ad.kind = "sigma_inf" THEN Inf(1)
                   ELSE IF hit /\ ad.kind = "sigma_nan" THEN NaN
                   ELSE BaseSigma]

(* ---------------------- EXPONENTIAL_simulation.py --------------------- *)
Fields == {"nb_simu", "lambda_x", "lambda_z", "alpha_y", "sample_size"}

SampleSizes == {1, 2}

SizeLists == UNION {[1..n -> SampleSizes] : n \in 0..MaxLen}

\* (alpha_y, lambda_x, lambda_z): in the regime where theta_0 is finite, on
\* its boundary, with a negative rate, and with a zero rate
ParamTriples == {<<4, 1, 2>>, <<2, 1, 2>>, <<4, -1, 2>>, <<4, 1, 0>>}

FullConfigs ==
    {[present |-> Fields, nb_simu |-> nb, alpha_y |-> p[1], lambda_x |-> p[2],
      lambda_z |-> p[3], sample_size |-> ss] :
        nb \in 1..MaxB, p \in ParamTriples, ss \in SizeLists}

\* documents with one required field left out
PartialConfigs ==
    {[present |-> Fields \ {f}, nb_simu |-> 1, alpha_y |-> 4, lambda_x |-> 1,
      lambda_z |-> 2, sample_size |-> <<1>>] : f \in Fields}

Configs == FullConfigs \cup PartialConfigs

Unset == -1

NoValue == [k |-> "unset", n |-> 0, d |-> 0]

ZeroMatrix(rows) == [i \in 1..rows |-> [c \in Cols |-> Fin(0, 1)]]

NaNRow == [c \in Cols |-> NaN]

\* dict[key] = value that appends even when the key is already present
DictSetAppend(dict, key, value) == Append(dict, [key |-> key, value |-> value])

\* dict[key] = value: a present key keeps its place, a new key goes last
DictSet(dict, key, value) ==
    IF \E i \in 1..Len(dict) : dict[i].key = key
    THEN [i \in 1..Len(dict) |->
            IF dict[i].key = key THEN [key |-> key, value |-> value]
            ELSE dict[i]]
    ELSE Append(dict, [key |-> key, value |-> value])

Keys(dict) == [i \in 1..Len(dict) |-> dict[i].key]

VARIABLES
    config,           \* the YAML document (input)
    adapter,          \* behaviour of estimator_unknown_ranks (input)
    pc,               \* position in the script
    B, lambda_x, lambda_z, alpha_y, sample_size_set,
    idx,              \* position of the for loop in sample_size_set
    sample_size, b,
    theta0,           \* analytical_theta(...) of the current run
    results, sigma,   \* the two B x nb_estimators matrices
    big_results,      \* dict: sample size -> report, in insertion order
    pickled,          \* what pickle.dump wrote
    outfile,          \* blocks appended to the text log of the run
    py_random,        \* state of Python's random module
    np_random,        \* state of numpy's global generator
    draws,            \* generate_data calls of the current sample-size run
    calls             \* estimator calls of the current sample-size run

vars ==
    <<config, adapter, pc, B, lambda_x, lambda_z, alpha_y, sample_size_set, idx,
      sample_size, b, theta0, results, sigma, big_results, pickled,
      outfile, py_random, np_random, draws, calls>>

Init ==
    /\ config \in Configs
    /\ adapter \in Adapters
    /\ np_random \in RngStates
    /\ py_random = Unset
    /\ pc = "load"
    /\ B = Unset /\ lambda_x = Unset /\ lambda_z = Unset /\ alpha_y = Unset
    /\ sample_size_set = <<>>
    /\ idx = 0 /\ sample_size = Unset /\ b = 0
    /\ theta0 = NoValue
    /\ results = <<>> /\ sigma = <<>>
    /\ big_results = <<>> /\ pickled = <<>> /\ outfile = <<>>
    /\ draws = 0 /\ calls = <<>>

\* lines 47-56: a missing key raises KeyError
LoadConfig ==
    /\ pc = "load"
    /\ IF {"nb_simu", "lambda_x", "lambda_z", "alpha_y"} \subseteq config.present
       THEN /\ B' = config.nb_simu
            /\ lambda_x' = config.lambda_x
            /\ lambda_z' = config.lambda_z
            /\ alpha_y' = config.alpha_y
            /\ pc' = "setup"
       ELSE /\ pc' = "aborted"
            /\ UNCHANGED <<B, lambda_x, lambda_z, alpha_y>>
    /\ UNCHANGED <<outfile, theta0, config, adapter, sample_size_set, idx,
                   sample_size, b, results, sigma, big_results, pickled,
                   py_random, np_random, draws, calls>>

\* lines 59-84: the diagnostics 1-lambda_x/lambda_z and 1/alpha_y are
\* printed (ZeroDivisionError on a zero divisor) and appended to the log,
\* then sample_size is read (KeyError when missing)
Setup ==
    /\ pc = "setup"
    /\ IF lambda_z = 0 \/ alpha_y = 0
       THEN /\ pc' = "aborted"
            /\ UNCHANGED <<outfile, sample_size_set, idx, big_results>>
       ELSE /\ outfile' = Append(outfile, "parameters")
            /\ IF "sample_size" \notin config.present
               THEN /\ pc' = "aborted"
                    /\ UNCHANGED <<sample_size_set, idx, big_results>>
               ELSE /\ sample_size_set' = config.sample_size
                    /\ big_results' = <<>>
                    /\ idx' = 1
                    /\ pc' = "for"
    /\ UNCHANGED <<theta0, config, adapter, B, lambda_x, lambda_z, alpha_y,
                   sample_size, b, results, sigma, pickled, py_random,
                   np_random, draws, calls>>

\* lines 86-96: next sample size; the log gets its "Running ..." line,
\* random.seed(999) seeds Python's random module, the matrices are allocated
RunStart ==
    /\ pc = "for"
    /\ idx <= Len(sample_size_set)
    /\ sample_size' = sample_size_set[idx]
    /\ outfile' = Append(outfile, "running")
    /\ py_random' = Seed
    /\ results' = ZeroMatrix(B)
    /\ sigma' = ZeroMatrix(B)
    /\ b' = 0
    /\ draws' = 0
    /\ calls' = <<>>
    /\ pc' = "rep"
    /\ UNCHANGED <<theta0, config, adapter, B, lambda_x, lambda_z, alpha_y,
                   sample_size_set, idx, big_results, pickled, np_random>>

\* lines 98-122, one pass of `for b in range(B)`, with a degenerate
\* replication drawn again
Replicate_retry ==
    /\ pc = "rep"
    /\ b < B
    /\ LET data == generate_data(np_random, sample_size)
           out == [i \in Cols |->
                     estimator_unknown_ranks(adapter, data.y, data.x, data.z,
                                             Calls[i].method, Calls[i].se_method)]
           bad == IsInf(out[3].sigma) \/ IsNaN(out[4].sigma)
       IN  /\ np_random' = data.rng
           /\ draws' = draws + 1
           /\ calls' = calls \o Calls
           /\ results' = [results EXCEPT ![b + 1] = [c \in Cols |-> out[c].theta]]
           /\ sigma' = [sigma EXCEPT ![b + 1] = [c \in Cols |-> out[c].sigma]]
           /\ b' = IF bad THEN b ELSE b + 1
    /\ UNCHANGED <<outfile, theta0, config, adapter, pc, B, lambda_x,
                   lambda_z, alpha_y, sample_size_set, idx, sample_size,
                   big_results, pickled, py_random>>

\* lines 98-122, one pass of `for b in range(B)`: generate the sample, call
\* the five estimators, store row b, blank the row on a division error
Replicate ==
    /\ pc = "rep"
    /\ b < B
    /\ LET data == generate_data(np_random, sample_size)
           out == [i \in Cols |->
                     estimator_unknown_ranks(adapter, data.y, data.x, data.z,
                                             Calls[i].method, Calls[i].se_method)]
           \* math.isinf(sigma_smooth) or np.isnan(sigma_ls)
           bad == IsInf(out[3].sigma) \/ IsNaN(out[4].sigma)
       IN  /\ np_random' = data.rng
           /\ draws' = draws + 1
           /\ calls' = calls \o [i \in Cols |-> Calls[i]]
           /\ results' = [results EXCEPT ![b + 1] =
                             IF bad THEN NaNRow ELSE [c \in Cols |-> out[c].theta]]
           /\ sigma' = [sigma EXCEPT ![b + 1] =
                             IF bad THEN NaNRow ELSE [c \in Cols |-> out[c].sigma]]
           /\ b' = b + 1
    /\ UNCHANGED <<outfile, theta0, config, adapter, pc, B, lambda_x,
                   lambda_z, alpha_y, sample_size_set, idx, sample_size,
                   big_results, pickled, py_random>>

\* range(B) is exhausted
LoopExit ==
    /\ pc = "rep"
    /\ b >= B
    /\ pc' = "post"
    /\ UNCHANGED <<outfile, theta0, config, adapter, B, lambda_x, lambda_z,
                   alpha_y, sample_size_set, idx, sample_size, b, results,
                   sigma, big_results, pickled, py_random, np_random, draws,
                   calls>>

\* lines 127-131 and 135-145: the frames handed to performance_report
y_hat == dropna(Frame(results))

sigma_df == dropna(Frame(sigma))

\* lines 126-148: dropna on each matrix, theta0, the report (also appended
\* to the log), the dict entry
PostProcess ==
    /\ pc = "post"
    /\ LET t == analytical_theta(alpha_y, lambda_z, lambda_x)
       IN  IF t.k = "raise"
           THEN /\ pc' = "aborted"
                /\ UNCHANGED <<theta0, big_results, idx, outfile>>
           ELSE /\ theta0' = t
                /\ outfile' = Append(outfile, "report")
                /\ big_results' =
                     DictSet(big_results, sample_size,
                             performance_report(y_hat, t, sample_size,
                                                sigma_df))
                /\ idx' = idx + 1
                /\ pc' = "for"
    /\ UNCHANGED <<config, adapter, B, lambda_x, lambda_z, alpha_y,
                   sample_size_set, sample_size, b, results, sigma, pickled,
                   py_random, np_random, draws, calls>>

\* lines 151-153: the loop over sample sizes is over, the dict is pickled
Save ==
    /\ pc = "for"
    /\ idx > Len(sample_size_set)
    /\ pickled' = big_results
    /\ pc' = "done"
    /\ UNCHANGED <<outfile, theta0, config, adapter, B, lambda_x, lambda_z,
                   alpha_y, sample_size_set, idx, sample_size, b, results,
                   sigma, big_results, py_random, np_random, draws, calls>>

Next == LoadConfig \/ Setup \/ RunStart \/ Replicate \/ LoopExit
        \/ PostProcess \/ Save

Spec == Init /\ [][Next]_vars

\* the script is one sequential process: inside the replication loop the
\* next pass, or the exit of the loop, is eventually executed
FairSpec == Spec /\ WF_vars(Replicate) /\ WF_vars(LoopExit)

(* --------------- analytical_theta on a grid of parameters ------------- *)
ParamGrid == (-1)..MaxParam

ThetaInit ==
    /\ pc = "theta"
    /\ alpha_y \in ParamGrid /\ lambda_z \in ParamGrid /\ lambda_x \in ParamGrid
    /\ theta0 = NoValue
    /\ config = [present |-> Fields, nb_simu |-> 1, alpha_y |-> alpha_y,
                 lambda_x |-> lambda_x, lambda_z |-> lambda_z,
                 sample_size |-> <<>>]
    /\ adapter = [call |-> Calls[1], kind |-> "sigma_inf", on |-> {}]
    /\ np_random = 0 /\ py_random = Unset
    /\ B = 1 /\ sample_size_set = <<>>
    /\ idx = 0 /\ sample_size = Unset /\ b = 0
    /\ results = <<>> /\ sigma = <<>>
    /\ big_results = <<>> /\ pickled = <<>> /\ outfile = <<>>
    /\ draws = 0 /\ calls = <<>>

\* theta0 = analytical_theta(alpha_y = ..., lambda_z = ..., lambda_x = ...)
CallAnalyticalTheta ==
    /\ pc = "theta"
    /\ theta0' = analytical_theta(alpha_y, lambda_z, lambda_x)
    /\ pc' = "theta_done"
    /\ UNCHANGED <<outfile, config, adapter, B, lambda_x, lambda_z, alpha_y,
                   sample_size_set, idx, sample_size, b, results, sigma,
                   big_results, pickled, py_random, np_random, draws, calls>>

ThetaNext == CallAnalyticalTheta

SpecTheta == ThetaInit /\ [][ThetaNext]_vars

(* ------------------------------ claims -------------------------------- *)
\* the report of the sample-size run that has just been post-processed
RunReported == pc = "for" /\ idx > 1

LastReport ==
    big_results[CHOOSE i \in 1..Len(big_results) :
                    big_results[i].key = sample_size].value

Zero == Fin(0, 1)

\* a required field is absent, or a value has the wrong sign
ConfigInvalid ==
    \/ config.present # Fields
    \/ config.nb_simu <= 0
    \/ config.lambda_x <= 0 \/ config.lambda_z <= 0 \/ config.alpha_y <= 0
    \/ \E i \in 1..Len(config.sample_size) : config.sample_size[i] <= 0

\* C1: once the replication loop is over, a row whose standard errors hold a
\* non-finite entry (inf or NaN) for any variant is in neither of the two
\* frames handed to performance_report.
C1_RowAtomicity ==
    pc = "post" =>
        \A i \in 1..B :
            (\E c \in Cols : ~IsFinite(sigma[i][c]))
                => (i - 1) \notin Index(y_hat) /\ (i - 1) \notin Index(sigma_df)

\* C2: the report's n_simu is at most B and equals B minus the number of
\* rows removed from the point-estimate frame or the standard-error frame.
C2_RetainedCount ==
    (RunReported /\ ~ConfigInvalid) =>
        LET discarded == {i \in 0..(B - 1) :
                             i \notin Index(y_hat) \/ i \notin Index(sigma_df)}
        IN  /\ LastReport.n_simu <= B
            /\ LastReport.n_simu = B - Cardinality(discarded)

\* C3: when the replication loop of a sample size starts, the generator
\* that generate_data draws from is in the state the fixed seed gives it,
\* whatever state the process started in and whatever was consumed before.
C3_Reseeded == (pc = "rep" /\ b = 0) => np_random = Seed % RngMod

\* C4: when alpha_y*lambda_x/lambda_z <= 1, analytical_theta returns a
\* non-finite value: no finite value and no exception.
C4_NonFiniteSentinel ==
    (/\ pc = "theta_done"
     /\ lambda_z # 0
     /\ alpha_y * lambda_x * lambda_z <= lambda_z * lambda_z)
        => theta0.k \in {"inf", "nan"}

\* C5: for positive parameters with alpha_y*lambda_x/lambda_z > 1,
\* analytical_theta returns a finite, strictly positive value t with
\* t * (alpha_y*lambda_x/lambda_z - 1) = 1; for alpha_y = 4, lambda_x = 1,
\* lambda_z = 2 it returns 1.
C5_FinitePositive ==
    (/\ pc = "theta_done"
     /\ alpha_y > 0 /\ lambda_x > 0 /\ lambda_z > 0
     /\ alpha_y * lambda_x > lambda_z)
        => /\ IsFinite(theta0)
           /\ theta0.n > 0 /\ theta0.d > 0
           /\ theta0.n * (alpha_y * lambda_x - lambda_z) = theta0.d * lambda_z
           /\ (alpha_y = 4 /\ lambda_x = 1 /\ lambda_z = 2) => theta0 = Fin(1, 1)

C5_Witness ==
    /\ pc = "theta_done"
    /\ alpha_y = 4 /\ lambda_x = 1 /\ lambda_z = 2
    /\ theta0 = [k |-> "fin", n |-> 1, d |-> 1]

\* the list with every later repetition of a value removed
RECURSIVE FirstOccurrences(_)
FirstOccurrences(s) ==
    IF s = <<>> THEN <<>>
    ELSE LET r == FirstOccurrences(SubSeq(s, 1, Len(s) - 1))
             x == s[Len(s)]
         IN  IF \E i \in 1..Len(r) : r[i] = x THEN r ELSE Append(r, x)

\* C6 as stated: at the end the keys of big_results, in iteration order,
\* are the configured sample_size list.
C6_OnePerElement ==
    pc = "done" => Keys(big_results) = sample_size_set

\* C6 amended: at the end the keys of big_results, in iteration order, are
\* the distinct configured sample sizes in order of first occurrence (the
\* configured list itself when it repeats no value), and that dict is what
\* was pickled.
C6_OnePerDistinct ==
    pc = "done" =>
        /\ Keys(big_results) = FirstOccurrences(sample_size_set)
        /\ pickled = big_results
        /\ (Cardinality({sample_size_set[i] : i \in 1..Len(sample_size_set)})
                = Len(sample_size_set)
              => Keys(big_results) = sample_size_set)

C6_Witness ==
    /\ pc = "done"
    /\ Len(sample_size_set) = 2
    /\ sample_size_set[1] = sample_size_set[2]
    /\ Len(big_results) = 1

\* C7: with a required field absent or of the wrong sign, no sample is
\* generated, no estimator is called and no report is produced.
C7_FailFast ==
    ConfigInvalid => draws = 0 /\ calls = <<>> /\ big_results = <<>>

\* C8: when the estimator returns an infinite standard error for one variant
\* in every replication, the run is not aborted, the report's retained count
\* is 0 and the bias of the other variants is not NaN.
C8_NoValidData ==
    (/\ adapter.kind = "sigma_inf" /\ adapter.on = RngStates
     /\ ~ConfigInvalid
     /\ analytical_theta(config.alpha_y, config.lambda_z, config.lambda_x).k = "fin")
        => /\ pc # "aborted"
           /\ RunReported =>
                /\ LastReport.n_simu = 0
                /\ \A c \in Cols :
                       Calls[c] # adapter.call => ~IsNaN(LastReport.bias[c])

\* every estimate equals theta0 and every standard error is the same finite
\* positive value
ExactAdapter ==
    /\ \A i \in 1..B : \A c \in Cols :
           /\ results[i][c] = theta0
           /\ sigma[i][c] = sigma[1][1]
    /\ IsFinite(sigma[1][1]) /\ sigma[1][1].n > 0

ZeroErrorReport(r) ==
    /\ r.n_simu = B
    /\ \A c \in Cols :
           /\ r.bias[c] = Zero
           /\ r.MAE[c] = Zero
           /\ r.RMSE[c] = Zero
           /\ r.Coverage[c] = Fin(1, 1)

\* C9 as stated: for every B >= 1, estimates all equal to theta0 with one
\* finite positive standard error give retained count B and bias = MAE =
\* RMSE = 0 and coverage rate 1 for every variant.
C9_ZeroError ==
    (RunReported /\ B >= 1 /\ ExactAdapter) => ZeroErrorReport(LastReport)

\* C9 amended: the same for B >= 2; for B = 1 the retained count is 1, bias
\* = MAE = 0 and coverage rate = 1, and RMSE is NaN (the standard deviation
\* of one observation with ddof = 1).
C9_ZeroErrorTwoOrMore ==
    (RunReported /\ ExactAdapter) =>
        /\ B >= 2 => ZeroErrorReport(LastReport)
        /\ B = 1 =>
             /\ LastReport.n_simu = 1
             /\ \A c \in Cols :
                    /\ LastReport.bias[c] = Zero
                    /\ LastReport.MAE[c] = Zero
                    /\ IsNaN(LastReport.RMSE[c])
                    /\ LastReport.Coverage[c] = Fin(1, 1)

C9_Witness ==
    /\ RunReported /\ B >= 2 /\ ExactAdapter
    /\ LastReport.n_simu = B
    /\ LastReport.RMSE[1] = Zero /\ LastReport.Coverage[1] = Fin(1, 1)

\* the calls made so far in this run: n replications of the five calls
CallsOfReplications(n) ==
    /\ Len(calls) = nb_estimators * n
    /\ \A j \in 1..Len(calls) : calls[j] = Calls[((j - 1) % nb_estimators) + 1]

LoopCounts ==
    /\ pc = "rep" => b <= B /\ draws = b /\ CallsOfReplications(b)
    /\ pc = "post" => b = B /\ draws = B /\ CallsOfReplications(B)

\* C10: in every sample-size run the replication loop ends, after exactly B
\* calls of generate_data, each followed by the five estimator calls in the
\* same order (5*B calls), whether or not replications were degenerate.
C10_ExactlyBDraws == [](LoopCounts) /\ ((pc = "rep") ~> (pc = "post"))

C10_Witness ==
    /\ pc = "post" /\ B >= 2
    /\ draws = B /\ Len(calls) = nb_estimators * B
    /\ \E i \in 1..B : results[i] = NaNRow

====
